---- MODULE Spec2Model ----
(***************************************************************************)
(* Booking lifecycle of the house-rentals backend: the Booking and         *)
(* Property models (src/unnamed/part_000) and the booking and property     *)
(* routes (src/backend/middleware/authMiddleware.js lines 79-397,          *)
(* src/backend/routes/propertyRoutes.js).                                  *)
(*                                                                         *)
(* Dates are counted in whole days; the pre-save hook divides a            *)
(* millisecond difference by 1000*60*60*24*30, which on whole days is a    *)
(* division of the day difference by 30.  A payment entry is represented   *)
(* by its amount, a message by its sender.  The pre-save hook is taken to  *)
(* run before the write of a save, as its comment in the source says.      *)
(* The set of properties is fixed: creating and deleting properties is     *)
(* left to the property collaborator.                                      *)
(*                                                                         *)
(* Spec serves requests one at a time (each handler runs to its response); *)
(* a refused request and a request whose save fails leave the store as it  *)
(* was, so they show as steps that change nothing.  SpecRace splits the    *)
(* create and payment handlers at their awaits, so that requests           *)
(* interleave, next to whole approvals by the owner.                       *)
(***************************************************************************)
EXTENDS Integers, Sequences, FiniteSets, TLC

\* ---------------------------------------------------------------- bounds
\* Bookings in the store.
MaxBookings == 2
\* Bookings, payment entries and messages in the store, all together.
MaxStore == 3
MaxAmount == 2
MaxDateIdx == 2
\* Requests served with interleaving in SpecRace.
MaxReqs == 3

\* ---------------------------------------------------------------- inputs
Owners == {"o1", "o2"}
Renters == {"r1", "r2"}
Users == Owners \cup Renters

role(u) == IF u \in Owners THEN "owner" ELSE "renter"

Props == {"p1", "p2"}
NoProp == "p0"

propOwner == [p \in Props |-> IF p = "p1" THEN "o1" ELSE "o2"]
rentPrice == [p \in Props |-> IF p = "p1" THEN 1 ELSE 2]
securityDeposit == [p \in Props |-> IF p = "p1" THEN 1 ELSE 0]

\* Day numbers 0, 30, 61, 91, ...: spans of exactly 30 and of 31 days occur.
DateOf(i) == 30 * i + (i \div 2)
Dates == {DateOf(i) : i \in 0..MaxDateIdx}

\* Date ranges of create requests: every proper range, one empty and one reversed.
DateRanges ==
    {<<DateOf(MaxDateIdx), DateOf(MaxDateIdx)>>, <<DateOf(MaxDateIdx), DateOf(1)>>}
        \cup {r \in Dates \X Dates : r[1] < r[2]}

\* Users who send create requests.
Requesters == {"r1", "o1"}

Amounts == (0 - 1)..MaxAmount

StatusEnum == {"pending", "approved", "rejected", "active", "completed", "cancelled"}
\* A request body may carry any string; one value outside the enum stands for them.
StatusInputs == StatusEnum \cup {"archived"}

\* Outcome of the store writes of one request.
Faults == {"none", "propertyWrite", "bookingWrite"}

\* ---------------------------------------------------------------- state
VARIABLES bookings, avail, reqs

vars == <<bookings, avail, reqs>>

BookingIds == 1..Len(bookings)

\* ---------------------------------------------------------------- pure parts
\* A hook that rounds down where the source rounds up.
CeilTruncating(n, d) == n \div d

\* Math.ceil(n / d) for d > 0 and any integer n.
Ceil(n, d) == 0 - ((0 - n) \div d)

MonthDays == 30

durationInMonths(startDate, endDate) == Ceil(endDate - startDate, MonthDays)

preSaveTotal(monthlyRent, deposit, startDate, endDate) ==
    (monthlyRent * durationInMonths(startDate, endDate)) + deposit

RECURSIVE SumSeq(_)
SumSeq(s) == IF s = <<>> THEN 0 ELSE Head(s) + SumSeq(Tail(s))

\* addPayment's status update: the two branches of the source, no third.
paymentStatusAfter(old, totalPaid, totalAmount) ==
    IF totalPaid >= totalAmount THEN "paid"
    ELSE IF totalPaid > 0 THEN "partial"
    ELSE old

\* A conflict query that forgets the status clause.
conflictFilterAnyStatus(b, p, startDate, endDate) ==
    /\ b.property = p
    /\ b.startDate <= endDate
    /\ b.endDate >= startDate

\* The Booking.findOne filter of the create route.
conflictFilter(b, p, startDate, endDate) ==
    /\ b.property = p
    /\ b.status \in {"approved", "active"}
    /\ b.startDate <= endDate
    /\ b.endDate >= startDate

conflictingBooking(bs, p, startDate, endDate) ==
    \E i \in 1..Len(bs) : conflictFilter(bs[i], p, startDate, endDate)

newBooking(u, p, startDate, endDate) ==
    [property |-> p,
     renter |-> u,
     owner |-> propOwner[p],
     startDate |-> startDate,
     endDate |-> endDate,
     monthlyRent |-> rentPrice[p],
     securityDeposit |-> securityDeposit[p],
     totalAmount |-> preSaveTotal(rentPrice[p], securityDeposit[p], startDate, endDate),
     status |-> "pending",
     paymentStatus |-> "pending",
     paymentHistory |-> <<>>,
     communication |-> <<>>,
     cancelledBy |-> "none",
     cancellationReason |-> "none",
     cancellationDate |-> "none"]

\* A status route that forgets the property write.
setUnavailableSkipped(av, p) == av

\* Property.findByIdAndUpdate(booking.property, {'availability.isAvailable': false})
setUnavailable(av, p) == [av EXCEPT ![p] = FALSE]

isAuthorized(b, u) == b.renter = u \/ b.owner = u

Init ==
    /\ bookings = <<>>
    /\ avail = [p \in Props |-> TRUE]
    /\ reqs = <<>>

RECURSIVE Entries(_)
Entries(bs) ==
    IF bs = <<>> THEN 0
    ELSE Len(Head(bs).paymentHistory) + Len(Head(bs).communication) + Entries(Tail(bs))

StoreSize == Len(bookings) + Entries(bookings)

\* ---------------------------------------------------------------- POST /api/bookings
\* Every refusal (403, 404, 400) and a failed save (500) leave the store as it was.
CreateBooking ==
    /\ Len(bookings) < MaxBookings
    /\ StoreSize < MaxStore
    /\ UNCHANGED <<avail, reqs>>
    /\ \E u \in Requesters :
         IF role(u) # "renter"
         THEN UNCHANGED bookings
         ELSE \E p \in Props \cup {NoProp} :
         IF p \notin Props
         THEN UNCHANGED bookings
         ELSE IF ~avail[p]
         THEN UNCHANGED bookings
         ELSE \E r \in DateRanges :
         IF conflictingBooking(bookings, p, r[1], r[2])
         THEN UNCHANGED bookings
         ELSE \/ UNCHANGED bookings
              \/ bookings' = Append(bookings, newBooking(u, p, r[1], r[2]))

\* ---------------------------------------------------------------- PUT /api/bookings/:id/status
\* booking.status = status; the property write when status is 'approved'; then
\* booking.save(), which validates status against the enum.  Either write may
\* fail: the handler then answers 500 and what was written before stays written.
\* A status route without the check of the booking's owner.
isBookingOwnerAny(b, u) == TRUE

\* booking.owner.toString() === req.user._id.toString()
isBookingOwner(b, u) == b.owner = u

\* A status route that reopens the property when the booking completes.
availAfterReopening(av, p, status) ==
    IF status = "approved" THEN setUnavailable(av, p)
    ELSE IF status = "completed" THEN [av EXCEPT ![p] = TRUE]
    ELSE av

\* The property write of the status route: only for status 'approved'.
availAfter(av, p, status) ==
    IF status = "approved" THEN setUnavailable(av, p) ELSE av

\* One request to the status route, by user u for booking id.
statusRequest(u, id, status) ==
    IF role(u) # "owner"
    THEN UNCHANGED <<bookings, avail>>
    ELSE IF id \notin BookingIds
    THEN UNCHANGED <<bookings, avail>>
    ELSE IF ~isBookingOwner(bookings[id], u)
    THEN UNCHANGED <<bookings, avail>>
    ELSE \E fault \in Faults :
    IF status = "approved" /\ fault = "propertyWrite"
    THEN UNCHANGED <<bookings, avail>>
    ELSE /\ avail' = availAfter(avail, bookings[id].property, status)
         /\ IF status \notin StatusEnum \/ fault = "bookingWrite"
            THEN UNCHANGED bookings
            ELSE bookings' = [bookings EXCEPT ![id].status = status]

setStatus(requested) ==
    /\ UNCHANGED reqs
    /\ \E u \in Users, id \in 1..MaxBookings, status \in requested :
         statusRequest(u, id, status)

UpdateStatus == setStatus(StatusInputs)

\* ---------------------------------------------------------------- POST /api/bookings/:id/payment
\* An addPayment that replaces the history by the new entry.
addPaymentOverwriting(b, amount) ==
    [b EXCEPT !.paymentHistory = <<amount>>,
              !.paymentStatus = paymentStatusAfter(@, amount, b.totalAmount)]

\* booking.addPayment: push, recompute paymentStatus, save.  No check of the amount.
addPayment(b, amount) ==
    [b EXCEPT !.paymentHistory = Append(@, amount),
              !.paymentStatus = paymentStatusAfter(@, SumSeq(b.paymentHistory) + amount,
                                                   b.totalAmount)]

AddPayment ==
    /\ StoreSize < MaxStore
    /\ UNCHANGED <<avail, reqs>>
    /\ \E u \in Users, id \in 1..MaxBookings :
         IF id \notin BookingIds
         THEN UNCHANGED bookings
         ELSE IF ~isAuthorized(bookings[id], u)
         THEN UNCHANGED bookings
         ELSE \E amount \in Amounts :
              \/ UNCHANGED bookings
              \/ bookings' = [bookings EXCEPT ![id] = addPayment(@, amount)]

\* ---------------------------------------------------------------- POST /api/bookings/:id/message
addMessage(b, senderId) == [b EXCEPT !.communication = Append(@, senderId)]

AddMessage ==
    /\ StoreSize < MaxStore
    /\ UNCHANGED <<avail, reqs>>
    /\ \E u \in Users, id \in 1..MaxBookings :
         IF id \notin BookingIds
         THEN UNCHANGED bookings
         ELSE IF ~isAuthorized(bookings[id], u)
         THEN UNCHANGED bookings
         ELSE \/ UNCHANGED bookings
              \/ bookings' = [bookings EXCEPT ![id] = addMessage(@, u)]

\* ---------------------------------------------------------------- PUT /api/properties/:id
\* Object.assign(property, req.body) with a body that carries availability.isAvailable.
UpdateProperty ==
    /\ UNCHANGED <<bookings, reqs>>
    /\ \E u \in Users, p \in Props \cup {NoProp}, flag \in BOOLEAN :
         IF role(u) # "owner"
         THEN UNCHANGED avail
         ELSE IF p \notin Props
         THEN UNCHANGED avail
         ELSE IF propOwner[p] # u
         THEN UNCHANGED avail
         ELSE \/ UNCHANGED avail
              \/ avail' = [avail EXCEPT ![p] = flag]

Next ==
    \/ CreateBooking
    \/ UpdateStatus
    \/ AddPayment
    \/ AddMessage
    \/ UpdateProperty

Spec == Init /\ [][Next]_vars

\* ---------------------------------------------------------------- interleaved handlers
\* A request in flight: the handler's locals between two awaits.  seen is the number
\* of stored bookings when the conflict query ran, idx the position of the booking
\* the request inserted; docHistory, docStatus and docTotal are the fields of the
\* document Booking.findById returned.
Req(op, pc, u, p, s, e, id, amount, docHistory, docStatus, docTotal, seen, idx) ==
    [op |-> op, pc |-> pc, user |-> u, property |-> p, startDate |-> s, endDate |-> e,
     id |-> id, amount |-> amount, docHistory |-> docHistory, docStatus |-> docStatus,
     docTotal |-> docTotal, seen |-> seen, idx |-> idx]

ReqIds == 1..Len(reqs)

\* create, up to the return of Property.findById and the availability test
LoadCreate ==
    /\ Len(reqs) < MaxReqs
    /\ UNCHANGED <<bookings, avail>>
    /\ \E u \in Requesters, p \in Props, r \in DateRanges :
         IF role(u) # "renter" \/ ~avail[p]
         THEN UNCHANGED reqs
         ELSE reqs' = Append(reqs, Req("create", "check", u, p, r[1], r[2],
                                       0, 0, <<>>, "none", 0, 0, 0))

\* create, the conflict query Booking.findOne
CheckCreate ==
    /\ UNCHANGED <<bookings, avail>>
    /\ \E i \in ReqIds :
         /\ reqs[i].op = "create"
         /\ reqs[i].pc = "check"
         /\ reqs' = [reqs EXCEPT
                ![i].pc = IF conflictingBooking(bookings, reqs[i].property,
                                                reqs[i].startDate, reqs[i].endDate)
                          THEN "conflict" ELSE "save",
                ![i].seen = Len(bookings)]

\* create, booking.save()
SaveCreate ==
    /\ UNCHANGED avail
    /\ Len(bookings) < MaxBookings
    /\ \E i \in ReqIds :
         /\ reqs[i].op = "create"
         /\ reqs[i].pc = "save"
         /\ bookings' = Append(bookings, newBooking(reqs[i].user, reqs[i].property,
                                                    reqs[i].startDate, reqs[i].endDate))
         /\ reqs' = [reqs EXCEPT ![i].pc = "created", ![i].idx = Len(bookings) + 1]

\* payment, up to the return of Booking.findById and the authorization test
LoadPayment ==
    /\ Len(reqs) < MaxReqs
    /\ UNCHANGED <<bookings, avail>>
    /\ \E u \in Users, id \in BookingIds, amount \in Amounts :
         IF ~isAuthorized(bookings[id], u)
         THEN UNCHANGED reqs
         ELSE reqs' = Append(reqs, Req("payment", "save", u, bookings[id].property,
                                       0, 0, id, amount, bookings[id].paymentHistory,
                                       bookings[id].paymentStatus,
                                       bookings[id].totalAmount, 0, 0))

\* What save() writes for a document changed by addPayment: the pushed entry goes to
\* the end of the stored array, and paymentStatus is written only if addPayment
\* changed it on the loaded document.
savePayment(stored, r) ==
    [stored EXCEPT
        !.paymentHistory = Append(@, r.amount),
        !.paymentStatus =
            IF paymentStatusAfter(r.docStatus, SumSeq(r.docHistory) + r.amount, r.docTotal)
                   # r.docStatus
            THEN paymentStatusAfter(r.docStatus, SumSeq(r.docHistory) + r.amount, r.docTotal)
            ELSE @]

\* payment, booking.addPayment(...) on the loaded document and its save()
SavePayment ==
    /\ UNCHANGED avail
    /\ \E i \in ReqIds :
         /\ reqs[i].op = "payment"
         /\ reqs[i].pc = "save"
         /\ bookings' = [bookings EXCEPT ![reqs[i].id] = savePayment(@, reqs[i])]
         /\ reqs' = [reqs EXCEPT ![i].pc = "paid"]

\* The status route serving requests to approve.
Approve == setStatus({"approved"})

NextRace ==
    \/ Approve
    \/ LoadCreate
    \/ CheckCreate
    \/ SaveCreate
    \/ LoadPayment
    \/ SavePayment

SpecRace == Init /\ [][NextRace]_vars

\* ================================================================ claims
\* Half-open overlap of [s1, e1) and [s2, e2), as the specification defines a conflict.
Overlaps(s1, e1, s2, e2) == s1 < e2 /\ s2 < e1

Holding(b) == b.status \in {"approved", "active"}

ProperRange(b) == b.startDate < b.endDate

LegalTransitions ==
    {<<"pending", "approved">>, <<"pending", "rejected">>,
     <<"approved", "active">>, <<"approved", "cancelled">>,
     <<"active", "completed">>, <<"active", "cancelled">>}

Rank(ps) == CASE ps = "pending" -> 0 [] ps = "partial" -> 1 [] ps = "paid" -> 2 [] OTHER -> 3

\* C1: no two distinct bookings of the same property are both approved or active
\* while their (proper) date ranges overlap.
C1_NoDoubleBooking ==
    \A i \in BookingIds, j \in BookingIds :
        (/\ i < j
         /\ bookings[i].property = bookings[j].property
         /\ Holding(bookings[i]) /\ Holding(bookings[j])
         /\ ProperRange(bookings[i]) /\ ProperRange(bookings[j]))
        => ~Overlaps(bookings[i].startDate, bookings[i].endDate,
                     bookings[j].startDate, bookings[j].endDate)

\* C2: a booking's status changes only along one of the six legal transitions.
C2_OnlyLegalTransitions ==
    [][\A id \in BookingIds :
          bookings'[id].status # bookings[id].status
              => <<bookings[id].status, bookings'[id].status>> \in LegalTransitions]_vars

\* C3: of two create requests for the same property with overlapping ranges whose
\* conflict checks both ran before either insert, at most one persists a booking.
Raced(r1, r2) ==
    /\ r1.op = "create" /\ r2.op = "create"
    /\ r1.pc = "created" /\ r2.pc = "created"
    /\ r1.seen < r2.idx /\ r2.seen < r1.idx

C3_RacingCreatesExclude ==
    \A i \in ReqIds, j \in ReqIds :
        (/\ i < j
         /\ reqs[i].property = reqs[j].property
         /\ reqs[i].startDate < reqs[i].endDate
         /\ reqs[j].startDate < reqs[j].endDate
         /\ Overlaps(reqs[i].startDate, reqs[i].endDate,
                     reqs[j].startDate, reqs[j].endDate))
        => ~Raced(reqs[i], reqs[j])

\* C4: a status change writes the booking and the property together or not at all:
\* no step of the status route changes a property's availability and leaves every
\* booking as it was.
C4_StatusAllOrNothing ==
    [][UpdateStatus => ((avail' # avail) => (bookings' # bookings))]_vars

\* C5: when an approved booking (with start < end) becomes cancelled or rejected,
\* its property is available right after the step.
C5_CancelRestoresAvailability ==
    [][\A id \in BookingIds :
          (/\ ProperRange(bookings[id])
           /\ bookings[id].status = "approved"
           /\ bookings'[id].status \in {"cancelled", "rejected"})
              => avail'[bookings[id].property] = TRUE]_vars

\* C6: when a pending booking becomes approved, its property is unavailable right
\* after the step, whatever it was before.
C6_ApproveMakesUnavailable ==
    [][\A id \in BookingIds :
          (/\ bookings[id].status = "pending"
           /\ bookings'[id].status = "approved")
              => avail'[bookings[id].property] = FALSE]_vars

\* A booking is approved and its property, which a later request has not reset, is
\* unavailable while another property is still available.
C6_Witness ==
    \E id \in BookingIds :
        /\ bookings[id].status = "approved"
        /\ avail[bookings[id].property] = FALSE
        /\ \E p \in Props : avail[p]

\* C7: for every booking with start < end, paymentStatus is paid when the sum of the history reaches totalAmount,
\* partial when the sum lies strictly between 0 and totalAmount, pending when the
\* sum is 0 (the claim names no status for a negative sum; with totalAmount <= 0
\* and sum 0 both readings are accepted).
C7_StatusMatchesSum ==
    \A id \in BookingIds :
        LET b == bookings[id]
            paid == SumSeq(b.paymentHistory)
        IN  \/ ~ProperRange(b)
            \/ paid >= b.totalAmount /\ b.paymentStatus = "paid"
            \/ 0 < paid /\ paid < b.totalAmount /\ b.paymentStatus = "partial"
            \/ paid = 0 /\ b.paymentStatus = "pending"
            \/ paid < 0

\* C8: an append to the payment history of a booking (with start < end) never
\* lowers its paymentStatus in the order pending < partial < paid.
C8_StatusMonotonic ==
    [][\A id \in BookingIds :
          (/\ ProperRange(bookings[id])
           /\ Len(bookings'[id].paymentHistory) > Len(bookings[id].paymentHistory))
              => Rank(bookings'[id].paymentStatus) >= Rank(bookings[id].paymentStatus)]_vars

\* C9: only strictly positive amounts are ever appended to the payment history of
\* a booking (with start < end): a request with any other amount changes nothing.
C9_OnlyPositiveAmounts ==
    [][\A id \in BookingIds :
          (/\ ProperRange(bookings[id])
           /\ Len(bookings'[id].paymentHistory) > Len(bookings[id].paymentHistory))
              => bookings'[id].paymentHistory[Len(bookings'[id].paymentHistory)] > 0]_vars

\* C10: on an available property whose stored bookings all have start < end, a
\* create request with a proper range is accepted
\* exactly when no approved or active booking of that property overlaps it as a
\* half-open range; a range that only touches an existing one is accepted.
Accepts(u, p, s, e) == CreateBooking /\ bookings' = Append(bookings, newBooking(u, p, s, e))

HalfOpenConflict(p, s, e) ==
    \E id \in BookingIds :
        /\ bookings[id].property = p
        /\ Holding(bookings[id])
        /\ Overlaps(s, e, bookings[id].startDate, bookings[id].endDate)

C10_HalfOpenConflictCheck ==
    \A p \in Props, r \in DateRanges :
        (/\ r[1] < r[2]
         /\ avail[p]
         /\ \A id \in BookingIds : ProperRange(bookings[id])
         /\ Len(bookings) < MaxBookings
         /\ StoreSize < MaxStore)
        => (ENABLED Accepts("r1", p, r[1], r[2]) <=> ~HalfOpenConflict(p, r[1], r[2]))

\* C11: on an available property, a create request with a proper range that lies
\* strictly apart from every approved or active booking of the property is
\* accepted, whatever pending, rejected, completed or cancelled bookings overlap it.
Apart(b, s, e) == b.endDate < s \/ e < b.startDate

C11_OnlyHoldingBookingsBlock ==
    \A p \in Props, r \in DateRanges :
        (/\ r[1] < r[2]
         /\ avail[p]
         /\ Len(bookings) < MaxBookings
         /\ StoreSize < MaxStore
         /\ \A id \in BookingIds :
                (bookings[id].property = p /\ Holding(bookings[id]))
                    => Apart(bookings[id], r[1], r[2]))
        => ENABLED Accepts("r1", p, r[1], r[2])

\* An available property has a booking that is not approved or active, and a
\* request for an overlapping range is accepted.
C11_Witness ==
    \E p \in Props, r \in DateRanges, id \in BookingIds :
        /\ r[1] < r[2]
        /\ avail[p]
        /\ bookings[id].property = p
        /\ ~Holding(bookings[id])
        /\ ProperRange(bookings[id])
        /\ Overlaps(r[1], r[2], bookings[id].startDate, bookings[id].endDate)
        /\ \A j \in BookingIds :
               (bookings[j].property = p /\ Holding(bookings[j]))
                   => Apart(bookings[j], r[1], r[2])
        /\ ENABLED Accepts("r1", p, r[1], r[2])

\* C12: every stored booking has start < end and a total amount that is not
\* negative: a create request with start >= end stores nothing.
C12_ProperRangesOnly ==
    \A id \in BookingIds :
        /\ bookings[id].startDate < bookings[id].endDate
        /\ bookings[id].totalAmount >= 0

\* C13: every stored booking has totalAmount = monthlyRent * m + securityDeposit
\* where m is the number of days from start to end divided by 30 and rounded up
\* (the least m with 30 * m >= days); 30 days are 1 month, 31 days are 2 months.
MonthsRange == (0 - (MaxDateIdx + 2))..(MaxDateIdx + 2)

IsMonths(m, days) == 30 * (m - 1) < days /\ days <= 30 * m

C13_TotalAmountFormula ==
    \A id \in BookingIds :
        LET b == bookings[id]
            days == b.endDate - b.startDate
        IN  /\ \E m \in MonthsRange :
                   /\ IsMonths(m, days)
                   /\ b.totalAmount = b.monthlyRent * m + b.securityDeposit
            /\ days = 30 => b.totalAmount = b.monthlyRent + b.securityDeposit
            /\ days = 31 => b.totalAmount = 2 * b.monthlyRent + b.securityDeposit

\* The store holds a booking of exactly 30 days and one of 31 days.
C13_Witness ==
    /\ \E id \in BookingIds :
           /\ bookings[id].endDate - bookings[id].startDate = 30
           /\ bookings[id].totalAmount = bookings[id].monthlyRent + bookings[id].securityDeposit
    /\ \E id \in BookingIds :
           /\ bookings[id].endDate - bookings[id].startDate = 31
           /\ bookings[id].totalAmount
                  = 2 * bookings[id].monthlyRent + bookings[id].securityDeposit

\* C14: a booking is cancelled exactly when its cancellation metadata (canceller,
\* reason, date) is set.
HasCancellation(b) ==
    /\ b.cancelledBy # "none"
    /\ b.cancellationReason # "none"
    /\ b.cancellationDate # "none"

NoCancellation(b) ==
    /\ b.cancelledBy = "none"
    /\ b.cancellationReason = "none"
    /\ b.cancellationDate = "none"

C14_CancelledHasMetadata ==
    \A id \in BookingIds :
        IF bookings[id].status = "cancelled"
        THEN HasCancellation(bookings[id])
        ELSE NoCancellation(bookings[id])

\* C15: a status change is open to exactly the actors of the transition table: the
\* booking's owner for every legal transition, and also the booking's renter for
\* cancelling an approved or active booking; a request by anyone else changes
\* neither the booking nor the property.
StatusStep(u, id, status) == statusRequest(u, id, status) /\ UNCHANGED reqs

Permitted(b, u, status) ==
    \/ u = b.owner
    \/ u = b.renter /\ status = "cancelled" /\ b.status \in {"approved", "active"}

PaymentReqs(id, pc) ==
    {i \in ReqIds : reqs[i].op = "payment" /\ reqs[i].id = id /\ reqs[i].pc = pc}

StatusOfSum(paid, total) ==
    IF paid >= total THEN "paid" ELSE IF paid > 0 THEN "partial" ELSE "pending"

C16_InterleavedPaymentsConsistent ==
    \A id \in BookingIds :
        (/\ ProperRange(bookings[id])
         /\ PaymentReqs(id, "save") = {}
         /\ \A i \in PaymentReqs(id, "paid") : reqs[i].amount > 0)
        => /\ Len(bookings[id].paymentHistory) = Cardinality(PaymentReqs(id, "paid"))
           /\ bookings[id].paymentStatus
                  = StatusOfSum(SumSeq(bookings[id].paymentHistory), bookings[id].totalAmount)

\* C17: the payment history of a booking is append-only: every step leaves it as
\* it is or adds exactly one entry at its end, keeping the entries before it.
C17_LedgerAppendOnly ==
    [][\A id \in BookingIds :
          LET h == bookings[id].paymentHistory
              g == bookings'[id].paymentHistory
          IN  \/ g = h
              \/ Len(g) = Len(h) + 1 /\ SubSeq(g, 1, Len(h)) = h]_vars

\* A booking whose status has changed holds two payments.
C17_Witness ==
    \E id \in BookingIds :
        /\ Len(bookings[id].paymentHistory) = 2
        /\ bookings[id].status # "pending"

\* C18: activating an approved booking and completing an active one leave every
\* availability flag as it is, and a property that is unavailable becomes
\* available again only by a step of the property route.
C18_ActivationKeepsAvailability ==
    [][/\ \A id \in BookingIds :
             (\/ /\ bookings[id].status = "approved"
                 /\ bookings'[id].status = "active"
              \/ /\ bookings[id].status = "active"
                 /\ bookings'[id].status = "completed")
                 => avail' = avail
       /\ (\E p \in Props : ~avail[p] /\ avail'[p]) => UpdateProperty]_vars

\* A completed booking whose property is still unavailable.
C18_Witness ==
    \E id \in BookingIds :
        /\ bookings[id].status = "completed"
        /\ ~avail[bookings[id].property]

====
